---- MODULE Spec2Model ----
(***************************************************************************)
(* Model of ursula_cli/shell.py: the heat provisioning flow _run_heat and  *)
(* the connectivity probe test_ssh.  One run of _run_heat is followed step *)
(* by step (pc is the position in the function); the provider (Keystone,   *)
(* Heat), the stack outputs and the probe results are inputs.              *)
(***************************************************************************)
EXTENDS Integers, Sequences, FiniteSets, TLC

\* ---------------------------------------------------------------- bounds
\* at most MaxReads stack reads after the submission (polling loop + re-read)
MaxReads == 4
\* at most MaxFails failed probes inside one `while not test_ssh(...)` loop
MaxFails == 2

\* ---------------------------------------------------------------- values
\* Python's None
None == "None"
\* an environment variable is unset (None), set to the empty string, or set
EnvValues == {None, "", "set"}
\* Python truthiness of a string-or-None value
Truthy(v) == v \notin {None, ""}

EnvNames == {"OS_USERNAME", "OS_PASSWORD", "OS_TENANT_NAME",
             "OS_PROJECT_NAME", "OS_AUTH_URL"}
CredKeys == {"username", "password", "tenant_name", "project_name", "auth_url"}

\* operator users (--ursula-user, defaulted by main() to 'ubuntu')
Users == {"ops", "ubuntu"}
\* non-reserved output keys and the addresses the provider hands out
HostKeys == {"node1", "node2"}
HostAddrs == {"10.0.0.5", "10.0.0.6"}
FloatingAddrs == {"203.0.113.9"}
\* --provisioner: not given, vagrant or heat
Provisioners == {None, "vagrant", "heat"}
\* exit statuses of the `vagrant up` subprocess
ExitStatuses == {"0", "1"}
\* the boxes of vagrant.yml (vagrant_config['vms'].keys())
Boxes == <<"allinone">>
\* stack statuses as heat reports them
Statuses == {"IN_PROGRESS", "COMPLETE", "FAILED"}

VARIABLES
    env,            \* os.environ restricted to the OS_* variables
    args,           \* parsed arguments: heat_stack_update, ursula_user
    pc,             \* position in _run_heat
    error,          \* the exception that ended the run, kind "none" if none
    trace,          \* provider calls and sleeps, in order
    stack_exists,   \* local stack_exists
    statusLog,      \* statuses read by heatclient.stacks.get(...).status
    outputs,        \* stack.outputs of the fetched stack
    servers,        \* local servers (output key -> address)
    floating_ip,    \* local floating_ip
    private_key,    \* local private_key
    iterOrder,      \* iteration order of the servers dict
    ssh_config_file,\* content of <env>/.ssh_config, a sequence of blocks
    ssh_key_file,   \* content of <env>/.ssh_key
    hostIdx,        \* index into iterOrder of the loop in progress
    probes,         \* the calls of test_ssh so far, with their results
    runpc,          \* position in main() and run() around _run_heat
    heat_file,      \* whether <env>/heat_stack.yml exists
    downstream,     \* the configuration-management call made by run()
    exit_code,      \* argument of sys.exit, None while the process runs
    vagrant_up      \* exit status of the `vagrant up` subprocess, None if not run

\* the state of main() and run()
runVars == <<runpc, heat_file, downstream, exit_code, vagrant_up>>

vars == <<env, args, pc, error, trace, stack_exists, statusLog, outputs,
          servers, floating_ip, private_key, iterOrder, ssh_config_file,
          ssh_key_file, hostIdx, probes, runVars>>

\* ---------------------------------------------------------------- helpers
NoError == [kind |-> "none", field |-> None, stack |-> None, status |-> None]

\* os.environ.get(key, default)
EnvGet(e, key, default) == IF e[key] # None THEN e[key] ELSE default

\* the CREDS dict
Creds(e) ==
    [k \in CredKeys |->
        CASE k = "username"     -> EnvGet(e, "OS_USERNAME", None)
          [] k = "password"     -> EnvGet(e, "OS_PASSWORD", None)
          [] k = "tenant_name"  -> EnvGet(e, "OS_TENANT_NAME",
                                          EnvGet(e, "OS_PROJECT_NAME", None))
          [] k = "project_name" -> EnvGet(e, "OS_TENANT_NAME",
                                          EnvGet(e, "OS_PROJECT_NAME", None))
          [] k = "auth_url"     -> EnvGet(e, "OS_AUTH_URL", None)]

\* all(CREDS.values())
AllCreds(c) == \A k \in CredKeys : Truthy(c[k])

\* stack_name: --heat-stack-name or the basename of the environment (the
\* runs followed here are started without --heat-stack-name)
StackName(a) == IF Truthy(a.heat_stack_name) THEN a.heat_stack_name
                ELSE "env"

Count(s, x) == Cardinality({i \in 1..Len(s) : s[i] = x})

\* the try/except around the existence check: the stack is there, the
\* provider answered 404, or any other exception is re-raised
\* (an exception that has no `code` attribute fails inside the handler)
LookupResult_NotFoundRaises(answer) ==
    CASE answer = "found"  -> "exists"
      [] answer = "nocode" -> "attribute_error"
      [] OTHER             -> "raise"

LookupResult(answer) ==
    CASE answer = "found"  -> "exists"
      [] answer = "404"    -> "absent"
      [] answer = "nocode" -> "attribute_error"
      [] OTHER             -> "raise"

\* the provider's stack outputs: a mapping from output key to value; every
\* output that is present has a non-empty value, and two output keys may
\* carry the same address
OutputValues(k) ==
    CASE k = "floating_ip" -> FloatingAddrs
      [] k = "private_key" -> {"KEYDATA"}
      [] OTHER             -> HostAddrs
OutputSets ==
    UNION {{o \in [ks -> HostAddrs \cup FloatingAddrs \cup {"KEYDATA"}] :
                \A k \in ks : o[k] \in OutputValues(k)} :
           ks \in SUBSET (HostKeys \cup {"floating_ip", "private_key"})}

\* the loop over stack.outputs: every key other than floating_ip and
\* private_key is a server
ServersOf_KeepsPrivateKey(o) ==
    [k \in DOMAIN o \ {"floating_ip"} |-> o[k]]

ServersOf(o) ==
    [k \in DOMAIN o \ {"floating_ip", "private_key"} |-> o[k]]
FloatingIpOf(o) == IF "floating_ip" \in DOMAIN o THEN o["floating_ip"] ELSE None
PrivateKeyOf(o) == IF "private_key" \in DOMAIN o THEN o["private_key"] ELSE None

\* the orders in which a dict with these keys may be iterated
Orders(ks) ==
    {q \in [1..Cardinality(ks) -> ks] : \A k \in ks : \E i \in DOMAIN q : q[i] = k}

\* os.path.join(args.environment, ".ssh_key")
ssh_key_path == "env/.ssh_key"

\* the `Host *` block, with the IdentityFile line when heat made a key
DefaultRule_AlwaysIdentity(user, pk) ==
    [host |-> "*", hostname |-> None, user |-> user,
     options |-> <<"ForwardAgent yes", "UserKnownHostsFile /dev/null",
                   "StrictHostKeyChecking no", "PasswordAuthentication no">>,
     identity |-> ssh_key_path,
     proxy |-> << >>]

DefaultRule(user, pk) ==
    [host |-> "*", hostname |-> None, user |-> user,
     options |-> <<"ForwardAgent yes", "UserKnownHostsFile /dev/null",
                   "StrictHostKeyChecking no", "PasswordAuthentication no">>,
     identity |-> IF Truthy(pk) THEN ssh_key_path ELSE None,
     proxy |-> << >>]

\* the `Host floating_ip` block
FloatingRule_NoHostname(fip) ==
    [host |-> "floating_ip", hostname |-> None, user |-> None,
     options |-> << >>, identity |-> None, proxy |-> << >>]

FloatingRule(fip) ==
    [host |-> "floating_ip", hostname |-> fip, user |-> None,
     options |-> << >>, identity |-> None, proxy |-> << >>]

\* the block of one server; the ProxyCommand line names user@floating_ip
HostRule_FixedUser(server, ip, user, fip) ==
    [host |-> server, hostname |-> ip, user |-> None,
     options |-> << >>, identity |-> None,
     proxy |-> IF Truthy(fip) THEN <<"root", fip>> ELSE << >>]

HostRule(server, ip, user, fip) ==
    [host |-> server, hostname |-> ip, user |-> None,
     options |-> << >>, identity |-> None,
     proxy |-> IF Truthy(fip) THEN <<user, fip>> ELSE << >>]

\* test_ssh: True when connect succeeds, None when it raises one of the
\* caught exceptions
TestSsh(connect) == IF connect = "ok" THEN "True" ELSE None

\* whether test_ssh returns with its connection still open: it connects and
\* returns, and never calls ssh.close()
TestSshLeavesOpen(connect) == connect = "ok"

\* the entries the readiness loops walk over, in order
GateTargets_IgnoresFloating(fip, srv, order) ==
    [i \in 1..Len(order) |-> [entry |-> order[i], addr |-> srv[order[i]]]]

GateTargets(fip, srv, order) ==
    IF Truthy(fip) THEN << [entry |-> "floating_ip", addr |-> fip] >>
    ELSE [i \in 1..Len(order) |-> [entry |-> order[i], addr |-> srv[order[i]]]]

\* the failed probes made for one entry
FailsOf(ps, entry) ==
    LET Failed(p) == p.entry = entry /\ p.result = None
    IN  SelectSeq(ps, Failed)

\* the condition that ends one `while not test_ssh(...)` loop
LoopEnds_Always(result) == TRUE

LoopEnds(result) == Truthy(result)

\* the if/elif that picks the submission
StackAction_IgnoresFlag(exists, update) ==
    IF exists THEN "update" ELSE "create"

StackAction(exists, update) ==
    IF exists /\ update THEN "update"
    ELSE IF ~exists THEN "create"
    ELSE "none"

\* the condition of the polling loop
PollContinues_UntilComplete(status) == status # "COMPLETE"

PollContinues(status) == status = "IN_PROGRESS"

\* what an accepted create or update is followed by: time.sleep(5)
SubmitEvents_NoPause(action) == <<action>>

SubmitEvents(action) == <<action, "sleep">>

\* what is done with a key that heat generated: written to ssh_key_path,
\* os.chmod(..., 0600), then _ssh_add; nothing without a key
KeyEvents_AddBeforeChmod(pk) ==
    IF Truthy(pk) THEN <<"write_key", "ssh_add", "chmod:0600">> ELSE << >>

KeyEvents(pk) ==
    IF Truthy(pk) THEN <<"write_key", "chmod:0600", "ssh_add">> ELSE << >>

\* how run() goes on when _run_heat is over: to the configuration
\* management when it returned (rc is None), out through main()'s except
\* clause when it raised
AfterHeat_SwallowsError(heatpc) == "downstream"

AfterHeat(heatpc) == IF heatpc = "done" THEN "downstream" ELSE "except"

\* the checks of run() that come before the provisioner is started: with
\* heat, the template <env>/heat_stack.yml has to exist
BeforeProvision_NoTemplateCheck(provisioner, present, template) ==
    IF ~present THEN "except"
    ELSE IF provisioner = "vagrant" THEN "vagrant"
    ELSE IF provisioner = "heat" THEN "heat"
    ELSE "downstream"

BeforeProvision(provisioner, present, template) ==
    IF ~present THEN "except"
    ELSE IF provisioner = "vagrant" THEN "vagrant"
    ELSE IF provisioner = "heat"
         THEN (IF template THEN "heat" ELSE "except")
    ELSE "downstream"

\* Popen.returncode: the exit status once the process was waited for
\* (wait, poll or communicate), None before that
returncode(status, waited) == IF waited THEN status ELSE None

\* `if proc.returncode:` for an exit status or None
IsTrue(rc) == rc \notin {None, "0"}

\* whether _run_vagrant raises after `vagrant up`: it reads the output to
\* its end and tests proc.returncode without waiting for the process
VagrantUpRaises(status) == IsTrue(returncode(status, FALSE))

\* the block `vagrant ssh-config <box>` prints for one box
VagrantRule(box) ==
    [host |-> box, hostname |-> "127.0.0.1", user |-> "vagrant",
     options |-> << >>, identity |-> None, proxy |-> << >>]

\* what _vagrant_ssh_config does: open .ssh_config with "w", one
\* `vagrant ssh-config` per box, and once more after a pause when the file
\* says the box is not yet ready for SSH
SshConfigEvents(retry) ==
    IF retry THEN <<"vagrant_ssh_config", "sleep", "vagrant_ssh_config">>
    ELSE <<"vagrant_ssh_config">>

\* the test of the final stack status: anything but COMPLETE raises
UnexpectedStatus_Never(status) == FALSE

UnexpectedStatus(status) == status # "COMPLETE"

\* ---------------------------------------------------------------- Init
Init ==
    /\ env \in [EnvNames -> EnvValues]
    /\ args \in [heat_stack_update : BOOLEAN, ursula_user : Users,
                 heat_stack_name : {None}, provisioner : Provisioners]
    /\ pc = "creds"
    /\ error = NoError
    /\ trace = << >>
    /\ stack_exists = FALSE
    /\ statusLog = << >>
    /\ outputs = << >>
    /\ servers = << >>
    /\ floating_ip = None
    /\ private_key = None
    /\ iterOrder = << >>
    /\ ssh_config_file = << >>
    /\ ssh_key_file = None
    /\ hostIdx = 0
    /\ probes = << >>
    /\ runpc = "run"
    /\ heat_file \in BOOLEAN
    /\ downstream = "none"
    /\ exit_code = None
    /\ vagrant_up = None

\* ---------------------------------------------------------------- actions
\* the credentials check
CheckCreds ==
    /\ runpc = "heat"
    /\ pc = "creds"
    /\ LET c == Creds(env) IN
        IF AllCreds(c) THEN
            /\ pc' = "auth"
            /\ error' = error
        ELSE IF \E k \in CredKeys : c[k] = None THEN
            \* CREDS.keys()[CREDS.values().index(None)]: the first key, in
            \* the dict's order, whose value is None
            \E name \in {k \in CredKeys : c[k] = None} :
                /\ pc' = "failed"
                /\ error' = [NoError EXCEPT
                                !.kind = "OpenStackConfigurationError",
                                !.field = name]
        ELSE
            \* a falsy value that is not None: list.index(None) raises
            /\ pc' = "failed"
            /\ error' = [NoError EXCEPT !.kind = "ValueError"]
    /\ UNCHANGED <<env, args, trace, stack_exists, statusLog, outputs,
                   servers, floating_ip, private_key, iterOrder,
                   ssh_config_file, ssh_key_file, hostIdx, probes, runVars>>

\* Keystone login and heat endpoint lookup
Authenticate ==
    /\ pc = "auth"
    /\ trace' = Append(trace, "keystone")
    /\ \E ok \in BOOLEAN :
        IF ok THEN pc' = "lookup" /\ error' = error
        ELSE /\ pc' = "failed"
             /\ error' = [NoError EXCEPT !.kind = "Exception"]
    /\ UNCHANGED <<env, args, stack_exists, statusLog, outputs,
                   servers, floating_ip, private_key, iterOrder,
                   ssh_config_file, ssh_key_file, hostIdx, probes, runVars>>

\* the existence check
Lookup ==
    /\ pc = "lookup"
    /\ \E answer \in {"found", "404", "500", "nocode"} :
        /\ trace' = Append(trace, "get:" \o answer)
        /\ CASE LookupResult(answer) = "exists" ->
                    stack_exists' = TRUE /\ pc' = "submit" /\ error' = error
             [] LookupResult(answer) = "absent" ->
                    stack_exists' = FALSE /\ pc' = "submit" /\ error' = error
             [] OTHER ->
                    /\ stack_exists' = stack_exists
                    /\ pc' = "failed"
                    /\ error' = [NoError EXCEPT !.kind =
                            IF LookupResult(answer) = "raise"
                            THEN "Exception" ELSE "AttributeError"]
    /\ UNCHANGED <<env, args, statusLog, outputs,
                   servers, floating_ip, private_key, iterOrder,
                   ssh_config_file, ssh_key_file, hostIdx, probes, runVars>>

\* create, update or nothing, then the pause
Submit ==
    /\ pc = "submit"
    /\ LET action == StackAction(stack_exists, args.heat_stack_update) IN
        IF action = "none" THEN
            /\ pc' = "poll"
            /\ UNCHANGED <<trace, error>>
        ELSE \E accepted \in BOOLEAN :
            IF accepted THEN
                /\ trace' = trace \o SubmitEvents(action)
                /\ pc' = "poll"
                /\ error' = error
            ELSE
                /\ trace' = Append(trace, action)
                /\ pc' = "failed"
                /\ error' = [NoError EXCEPT !.kind = "Exception"]
    /\ UNCHANGED <<env, args, stack_exists, statusLog, outputs,
                   servers, floating_ip, private_key, iterOrder,
                   ssh_config_file, ssh_key_file, hostIdx, probes, runVars>>

\* one pass of `while heatclient.stacks.get(stack_name).status == ...`
Poll ==
    /\ pc = "poll"
    /\ Len(statusLog) < MaxReads - 1
    /\ \E answer \in Statuses \cup {"raise"} :
        \* the stack leaves IN_PROGRESS within the reads the bound allows
        /\ answer = "IN_PROGRESS" => Len(statusLog) < MaxReads - 2
        /\ IF answer = "raise" THEN
            /\ trace' = Append(trace, "get")
            /\ pc' = "failed"
            /\ error' = [NoError EXCEPT !.kind = "Exception"]
            /\ statusLog' = statusLog
           ELSE
            /\ statusLog' = Append(statusLog, answer)
            /\ error' = error
            /\ IF PollContinues(answer)
               THEN trace' = trace \o <<"get", "sleep">> /\ pc' = "poll"
               ELSE trace' = Append(trace, "get") /\ pc' = "fetch"
    /\ UNCHANGED <<env, args, stack_exists, outputs,
                   servers, floating_ip, private_key, iterOrder,
                   ssh_config_file, ssh_key_file, hostIdx, probes, runVars>>

\* stack = heatclient.stacks.get(stack_name) and the status test
Fetch ==
    /\ pc = "fetch"
    /\ trace' = Append(trace, "get")
    /\ \E answer \in Statuses \cup {"raise"} :
        IF answer = "raise" THEN
            /\ pc' = "failed"
            /\ error' = [NoError EXCEPT !.kind = "Exception"]
            /\ UNCHANGED <<statusLog, outputs>>
        ELSE
            /\ statusLog' = Append(statusLog, answer)
            /\ IF UnexpectedStatus(answer) THEN
                    /\ pc' = "failed"
                    /\ error' = [NoError EXCEPT !.kind = "UnexpectedStatus",
                                                !.stack = StackName(args),
                                                !.status = answer]
                    /\ outputs' = outputs
               ELSE
                    /\ pc' = "outputs"
                    /\ error' = error
                    /\ outputs' \in OutputSets
    /\ UNCHANGED <<env, args, stack_exists,
                   servers, floating_ip, private_key, iterOrder,
                   ssh_config_file, ssh_key_file, hostIdx, probes, runVars>>

\* the loop that sorts the outputs into servers, floating_ip, private_key
ParseOutputs ==
    /\ pc = "outputs"
    /\ servers' = ServersOf(outputs)
    /\ floating_ip' = FloatingIpOf(outputs)
    /\ private_key' = PrivateKeyOf(outputs)
    /\ iterOrder' \in Orders(DOMAIN ServersOf(outputs))
    /\ pc' = "writekey"
    /\ UNCHANGED <<env, args, error, trace, stack_exists, statusLog, outputs,
                   ssh_config_file, ssh_key_file, hostIdx, probes, runVars>>

\* write the key heat generated, chmod 0600, ssh-add
WriteKey ==
    /\ pc = "writekey"
    /\ ssh_key_file' = IF Truthy(private_key) THEN private_key
                       ELSE ssh_key_file
    /\ trace' = trace \o KeyEvents(private_key)
    /\ pc' = "writeconfig"
    /\ UNCHANGED <<env, args, error, stack_exists, statusLog, outputs,
                   servers, floating_ip, private_key, iterOrder,
                   ssh_config_file, hostIdx, probes, runVars>>

\* open(ssh_config_path, "w") and the default block
WriteConfig ==
    /\ pc = "writeconfig"
    /\ ssh_config_file' = << DefaultRule(args.ursula_user, private_key) >>
    /\ trace' = Append(trace, "write_config")
    /\ pc' = "appendfip"
    /\ UNCHANGED <<env, args, error, stack_exists, statusLog, outputs,
                   servers, floating_ip, private_key, iterOrder,
                   ssh_key_file, hostIdx, probes, runVars>>

\* the `if floating_ip:` append
AppendFloating ==
    /\ pc = "appendfip"
    /\ ssh_config_file' = IF Truthy(floating_ip)
                          THEN Append(ssh_config_file, FloatingRule(floating_ip))
                          ELSE ssh_config_file
    /\ trace' = IF Truthy(floating_ip) THEN Append(trace, "append_config")
                ELSE trace
    /\ pc' = "appendhost"
    /\ hostIdx' = 1
    /\ UNCHANGED <<env, args, error, stack_exists, statusLog, outputs,
                   servers, floating_ip, private_key, iterOrder,
                   ssh_key_file, probes, runVars>>

\* one pass of `for server, ip in servers.iteritems()`
AppendHost ==
    /\ pc = "appendhost"
    /\ hostIdx <= Len(iterOrder)
    /\ LET server == iterOrder[hostIdx] IN
        ssh_config_file' = Append(ssh_config_file,
            HostRule(server, servers[server], args.ursula_user, floating_ip))
    /\ trace' = Append(trace, "append_config")
    /\ hostIdx' = hostIdx + 1
    /\ UNCHANGED <<env, args, pc, error, stack_exists, statusLog,
                   outputs, servers, floating_ip, private_key, iterOrder,
                   ssh_key_file, probes, runVars>>

\* after the loop: ANSIBLE_SSH_ARGS, then on to the connectivity wait
SetSshArgs ==
    /\ pc = "appendhost"
    /\ hostIdx > Len(iterOrder)
    /\ pc' = IF Len(GateTargets(floating_ip, servers, iterOrder)) = 0
             THEN "done" ELSE "gate"
    /\ hostIdx' = 1
    /\ UNCHANGED <<env, args, error, trace, stack_exists, statusLog,
                   outputs, servers, floating_ip, private_key, iterOrder,
                   ssh_config_file, ssh_key_file, probes, runVars>>

\* one pass of a `while not test_ssh(...)` loop
Probe ==
    /\ pc = "gate"
    /\ LET targets == GateTargets(floating_ip, servers, iterOrder)
           t == targets[hostIdx]
       IN \E connect \in {"ok", "refused"} :
            /\ connect = "refused" => Len(FailsOf(probes, t.entry)) < MaxFails
            /\ probes' = Append(probes,
                    [entry |-> t.entry, host |-> t.addr,
                     user |-> args.ursula_user, key_file |-> ssh_key_path,
                     result |-> TestSsh(connect),
                     open |-> TestSshLeavesOpen(connect)])
            /\ IF LoopEnds(TestSsh(connect)) THEN
                    /\ trace' = trace
                    /\ hostIdx' = hostIdx + 1
                    /\ pc' = IF hostIdx = Len(targets) THEN "done" ELSE "gate"
               ELSE
                    /\ trace' = Append(trace, "sleep")
                    /\ UNCHANGED <<hostIdx, pc>>
    /\ UNCHANGED <<env, args, error, stack_exists, statusLog,
                   outputs, servers, floating_ip, private_key, iterOrder,
                   ssh_config_file, ssh_key_file, runVars>>

\* the rest of run() and main(): _run_module or _run_ansible, whose return
\* code main() hands to sys.exit; --module without --module-args raises,
\* which ends in main()'s except clause
DoDownstream ==
    \E call \in {"_run_ansible", "_run_module", "raise"} :
        IF call = "raise" THEN
            /\ downstream' = downstream
            /\ exit_code' = "-1"
            /\ runpc' = "exit"
        ELSE \E rc \in {"0", "2"} :
            /\ downstream' = call
            /\ exit_code' = rc
            /\ runpc' = "exit"

\* main()'s except clause: log the error, sys.exit(-1)
DoExcept ==
    /\ downstream' = downstream
    /\ exit_code' = "-1"
    /\ runpc' = "exit"

\* run() from its start: the environment directory and its hosts file have
\* to exist, then the heat template; with heat _run_heat is entered,
\* without a provisioner run() goes straight on
RunStart ==
    /\ runpc = "run"
    /\ \E present \in BOOLEAN :
        LET to == BeforeProvision(args.provisioner, present, heat_file) IN
        CASE to = "heat"       -> runpc' = "heat"
                                  /\ UNCHANGED <<downstream, exit_code>>
          [] to = "vagrant"    -> runpc' = "vagrant"
                                  /\ UNCHANGED <<downstream, exit_code>>
          [] to = "downstream" -> DoDownstream
          [] OTHER             -> DoExcept
    /\ UNCHANGED <<env, args, pc, error, trace, stack_exists, statusLog,
                   outputs, servers, floating_ip, private_key, iterOrder,
                   ssh_config_file, ssh_key_file, hostIdx, probes,
                   heat_file, vagrant_up>>

\* _run_heat is over, it returned or it raised, and run() and main() go on
\* to the end of the process
HeatEnds ==
    /\ runpc = "heat"
    /\ pc \in {"done", "failed"}
    /\ IF AfterHeat(pc) = "downstream" THEN DoDownstream ELSE DoExcept
    /\ UNCHANGED <<env, args, pc, error, trace, stack_exists, statusLog,
                   outputs, servers, floating_ip, private_key, iterOrder,
                   ssh_config_file, ssh_key_file, hostIdx, probes,
                   heat_file, vagrant_up>>

\* _run_vagrant and what run() does after it: load vagrant.yml, `vagrant
\* up`, the returncode test, _vagrant_ssh_config, _vagrant_copy_yml, then
\* on to the configuration management
RunVagrant ==
    /\ runpc = "vagrant"
    /\ \E loaded \in BOOLEAN :
        IF ~loaded THEN
            \* no vagrant.yml to open
            /\ DoExcept
            /\ UNCHANGED <<vagrant_up, trace, ssh_config_file>>
        ELSE \E status \in ExitStatuses :
            /\ vagrant_up' = status
            /\ IF VagrantUpRaises(status) THEN
                    /\ trace' = Append(trace, "vagrant_up")
                    /\ ssh_config_file' = ssh_config_file
                    /\ DoExcept
               ELSE \E retry \in BOOLEAN, copied \in BOOLEAN :
                    /\ trace' = <<"vagrant_up">> \o SshConfigEvents(retry)
                    /\ ssh_config_file' =
                            [i \in 1..Len(Boxes) |-> VagrantRule(Boxes[i])]
                    \* shutil.copy2 raises when <env>/vagrant.yml is missing
                    /\ IF copied THEN DoDownstream ELSE DoExcept
    /\ UNCHANGED <<env, args, pc, error, stack_exists, statusLog,
                   outputs, servers, floating_ip, private_key, iterOrder,
                   ssh_key_file, hostIdx, probes, heat_file>>

Next ==
    \/ RunStart
    \/ RunVagrant
    \/ HeatEnds
    \/ CheckCreds
    \/ Authenticate
    \/ Lookup
    \/ Submit
    \/ Poll
    \/ Fetch
    \/ ParseOutputs
    \/ WriteKey
    \/ WriteConfig
    \/ AppendFloating
    \/ AppendHost
    \/ SetSshArgs
    \/ Probe

Spec == Init /\ [][Next]_vars

\* the process is a single sequential flow that keeps running: whenever it
\* has a next step it takes one
FairSpec == Spec /\ WF_vars(Next)

\* ---------------------------------------------------------------- properties
Creates == Count(trace, "create")
Updates == Count(trace, "update")
LastOf(s) == s[Len(s)]

\* the run got past the status test after the polling loop (OutputsReady)
ReachedOutputs ==
    pc \in {"outputs", "writekey", "writeconfig", "appendfip", "appendhost",
            "gate", "done"}

\* C1: create is issued exactly when the existence check reported the stack
\* absent, update exactly when it exists and --heat-stack-update is set,
\* neither when it exists and the flag is unset; never both in one run, and
\* no other step issues a create or an update.
C1_CreateUpdateDecision ==
    [][ /\ pc # "submit" => Creates' = Creates /\ Updates' = Updates
        /\ pc = "submit" =>
            /\ stack_exists <=> LastOf(trace) = "get:found"
            /\ ~stack_exists <=> LastOf(trace) = "get:404"
            /\ Creates = 0 /\ Updates = 0
            /\ Creates' = 1 <=> LastOf(trace) = "get:404"
            /\ Updates' = 1 <=>
                    LastOf(trace) = "get:found" /\ args.heat_stack_update
            /\ Creates' + Updates' <= 1 ]_vars

C1_Witness ==
    /\ pc = "poll"
    /\ stack_exists /\ args.heat_stack_update
    /\ Updates = 1 /\ Creates = 0

\* C2: when the provider answers the existence check with not-found, the
\* lookup yields "absent" (stack_exists = False) without an error, and the
\* run goes on to create: it is either about to submit or has issued create.
C2_NotFoundIsAbsent ==
    Count(trace, "get:404") > 0 =>
        /\ ~stack_exists
        /\ pc = "submit" \/ Creates = 1

C2_Witness ==
    /\ Count(trace, "get:404") = 1
    /\ pc = "poll"
    /\ Creates = 1

\* C3 (as claimed): when the statuses read are n times IN_PROGRESS and then
\* COMPLETE, the run reaches OutputsReady after exactly n+1 status reads.
C3_ReadsNPlusOne ==
    \A n \in 0..MaxReads :
        ( /\ ReachedOutputs
          /\ Len(statusLog) >= n + 1
          /\ \A i \in 1..n : statusLog[i] = "IN_PROGRESS"
          /\ statusLog[n + 1] = "COMPLETE" )
        => Len(statusLog) = n + 1

\* C4 (as claimed): the unexpected-status failure happens only when the
\* status read last is neither COMPLETE nor IN_PROGRESS, its error carries
\* the stack name and that status; OutputsReady only after COMPLETE.
C4_FailsOnlyOnTerminalStatus ==
    /\ error.kind = "UnexpectedStatus" =>
            /\ error.status = LastOf(statusLog)
            /\ error.stack = StackName(args)
            /\ LastOf(statusLog) \notin {"COMPLETE", "IN_PROGRESS"}
    /\ ReachedOutputs => LastOf(statusLog) = "COMPLETE"
\* the probes made for one entry (an output key), and on one address
EntryLog(e) == LET Is(p) == p.entry = e IN SelectSeq(probes, Is)
AddrLog(a) == LET Is(p) == p.host = a IN SelectSeq(probes, Is)
\* a probe log of N failures followed by one success: N+1 attempts
FailsThenSuccess(l) ==
    /\ Len(l) >= 1
    /\ l[Len(l)].result = "True"
    /\ \A i \in 1..(Len(l) - 1) : l[i].result = None
\* what the provider's outputs say about hosts and the shared address
HostKeysOf(o) == DOMAIN o \ {"floating_ip", "private_key"}
HasFloating(o) == "floating_ip" \in DOMAIN o
RequiredEntries(o) == IF HasFloating(o) THEN {"floating_ip"} ELSE HostKeysOf(o)
RequiredAddrs(o) == {o[k] : k \in RequiredEntries(o)}
\* the routing document is complete
DocumentWritten == pc \in {"gate", "done"}
BlocksFor(h) == {i \in 1..Len(ssh_config_file) : ssh_config_file[i].host = h}

\* C5 (as claimed): when the gate has returned, every required address was
\* probed N times without success and then once with success, N+1 attempts
\* on that address and none after its first success.
C5_AttemptsPerAddress ==
    pc = "done" => \A a \in RequiredAddrs(outputs) : FailsThenSuccess(AddrLog(a))

\* C5 (amended): the gate returns only when every required address has a
\* successful probe; for every required entry (the floating_ip, or else each
\* non-reserved output key) the probes made for it are N failures followed
\* by one success on that entry's address, and no probe follows a success
\* within one entry's loop.  An address that several output keys carry is
\* probed again for each of them.
C5_AttemptsPerEntry ==
    /\ \A e \in HostKeys \cup {"floating_ip"} :
            /\ \A i \in 1..(Len(EntryLog(e)) - 1) : EntryLog(e)[i].result = None
            /\ \A i \in 1..Len(EntryLog(e)) : EntryLog(e)[i].host = outputs[e]
    /\ pc = "done" =>
            /\ \A e \in RequiredEntries(outputs) : FailsThenSuccess(EntryLog(e))
            /\ \A a \in RequiredAddrs(outputs) :
                    \E i \in 1..Len(probes) :
                        probes[i].host = a /\ probes[i].result = "True"

C5_Witness ==
    /\ pc = "done"
    /\ HostKeysOf(outputs) = HostKeys /\ ~HasFloating(outputs)
    /\ outputs["node1"] = outputs["node2"]
    /\ Len(EntryLog("node1")) = MaxFails + 1
    /\ Len(AddrLog(outputs["node1"])) > MaxFails + 1

\* C6: the gate probes no address outside the required set, which is
\* {floating_ip} when the outputs have one and the host addresses otherwise,
\* and when it returns it has probed every required address with success.
C6_ProbedAddresses ==
    /\ \A i \in 1..Len(probes) : probes[i].host \in RequiredAddrs(outputs)
    /\ HasFloating(outputs) =>
            \A i \in 1..Len(probes) : probes[i].host = outputs["floating_ip"]
    /\ pc = "done" =>
            /\ {probes[i].host : i \in 1..Len(probes)} = RequiredAddrs(outputs)
            /\ \A a \in RequiredAddrs(outputs) :
                    \E i \in 1..Len(probes) :
                        probes[i].host = a /\ probes[i].result = "True"

C6_Witness ==
    /\ pc = "done"
    /\ HasFloating(outputs) /\ HostKeysOf(outputs) = HostKeys
    /\ Len(probes) >= 2

\* C7: without a floating_ip the written document is the default block
\* followed by exactly one block per non-reserved output key, with the
\* host's address as hostname and no proxy; private_key gets no block.
C7_DirectRules ==
    (DocumentWritten /\ ~HasFloating(outputs)) =>
        /\ Len(ssh_config_file) = 1 + Cardinality(HostKeysOf(outputs))
        /\ BlocksFor("*") = {1}
        /\ BlocksFor("private_key") = {}
        /\ \A k \in HostKeysOf(outputs) :
                /\ Cardinality(BlocksFor(k)) = 1
                /\ \A i \in BlocksFor(k) :
                        /\ ssh_config_file[i].hostname = outputs[k]
                        /\ ssh_config_file[i].proxy = << >>

C7_Witness ==
    /\ pc = "done"
    /\ DOMAIN outputs = HostKeys \cup {"private_key"}
    /\ Len(ssh_config_file) = 3

\* C8: with a floating_ip every host block's proxy names the operator user
\* and that floating_ip, and the default block comes before every other.
C8_ProxiedRules ==
    (Len(ssh_config_file) > 0 /\ HasFloating(outputs)) =>
        /\ BlocksFor("*") = {1}
        /\ \A i \in 1..Len(ssh_config_file) :
                ssh_config_file[i].host \in HostKeysOf(outputs) =>
                    ssh_config_file[i].proxy =
                        <<args.ursula_user, outputs["floating_ip"]>>
        /\ DocumentWritten =>
                \A k \in HostKeysOf(outputs) : BlocksFor(k) # {}

C8_Witness ==
    /\ pc = "done"
    /\ HasFloating(outputs) /\ HostKeysOf(outputs) = HostKeys
    /\ args.ursula_user = "ubuntu"
    /\ Len(ssh_config_file) = 4

\* the document for a floating_ip and n hosts: a default block, one block
\* with the given alias for the floating_ip, n proxied host blocks
GatewayDocument(alias) ==
    (DocumentWritten /\ HasFloating(outputs)) =>
        /\ Len(ssh_config_file) = 2 + Cardinality(HostKeysOf(outputs))
        /\ Cardinality(BlocksFor("*")) = 1
        /\ Cardinality(BlocksFor(alias)) = 1
        /\ \A i \in BlocksFor(alias) :
                ssh_config_file[i].hostname = outputs["floating_ip"]
        /\ \A k \in HostKeysOf(outputs) :
                /\ Cardinality(BlocksFor(k)) = 1
                /\ \A i \in BlocksFor(k) :
                        /\ ssh_config_file[i].hostname = outputs[k]
                        /\ ssh_config_file[i].proxy =
                                <<args.ursula_user, outputs["floating_ip"]>>

\* C9 (as claimed): the floating_ip block's target alias is `gateway`.
C9_GatewayAlias == GatewayDocument("gateway")

\* C9 (amended): with a floating_ip and n hosts the document has exactly one
\* default block, one block whose target alias is `floating_ip` with the
\* floating address as hostname, and n host blocks that each proxy through
\* user@floating address.
C9_FloatingIpAlias == GatewayDocument("floating_ip")

C9_Witness ==
    /\ pc = "done"
    /\ outputs = [k \in {"node1", "node2", "floating_ip"} |->
                    CASE k = "node1" -> "10.0.0.5"
                      [] k = "node2" -> "10.0.0.6"
                      [] OTHER       -> "203.0.113.9"]
    /\ args.ursula_user = "ops"
    /\ Len(ssh_config_file) = 4

\* C10 (as claimed): when a required credential is missing or empty the run
\* fails with OpenStackConfigurationError naming a field that is missing,
\* before any provider call.
C10_ConfigurationError ==
    (pc # "creds" /\ \E k \in CredKeys : ~Truthy(Creds(env)[k])) =>
        /\ pc = "failed"
        /\ trace = << >>
        /\ error.kind = "OpenStackConfigurationError"
        /\ error.field \in CredKeys
        /\ ~Truthy(Creds(env)[error.field])
\* the number of blocks of the complete routing document for these outputs
ExpectedBlocks(o) ==
    1 + (IF HasFloating(o) THEN 1 ELSE 0) + Cardinality(HostKeysOf(o))

\* C11: with the heat provisioner the configuration-management step is
\* called only after _run_heat returned: the status read last is COMPLETE,
\* the routing document is written in full and every required address has a
\* successful probe; when _run_heat fails the step is never called and the
\* process exits non-zero.
C11_DownstreamOnlyAfterDone ==
    /\ (args.provisioner = "heat" /\ downstream # "none") =>
            /\ pc = "done"
            /\ LastOf(statusLog) = "COMPLETE"
            /\ Len(ssh_config_file) = ExpectedBlocks(outputs)
            /\ \A a \in RequiredAddrs(outputs) :
                    \E i \in 1..Len(probes) :
                        probes[i].host = a /\ probes[i].result = "True"
    /\ pc = "failed" =>
            /\ downstream = "none"
            /\ runpc = "exit" => exit_code = "-1"

C11_Witness ==
    /\ args.provisioner = "heat"
    /\ downstream = "_run_ansible" /\ exit_code = "0"
    /\ HostKeysOf(outputs) = HostKeys /\ Len(probes) > 2

\* C13: with the heat provisioner and no heat_stack.yml, run fails before
\* _run_heat starts: no provider call, no routing or key file written, no
\* configuration-management call, and the process exits non-zero.
C13_TemplateRequired ==
    (args.provisioner = "heat" /\ ~heat_file /\ runpc # "run") =>
        /\ runpc = "exit" /\ exit_code = "-1"
        /\ pc = "creds"
        /\ trace = << >>
        /\ ssh_config_file = << >> /\ ssh_key_file = None
        /\ probes = << >>
        /\ downstream = "none"

C13_Witness ==
    /\ args.provisioner = "heat" /\ ~heat_file
    /\ runpc = "exit" /\ exit_code = "-1"
\* C12 (as claimed): a status read that raises during the polling loop does
\* not end the run in failure, and a probe that fails is followed by the
\* delay and a further attempt on the same entry.
C12_TransientNotEscalated ==
    [][ /\ pc = "poll" => pc' # "failed"
        /\ (pc = "gate" /\ probes' # probes
                /\ LastOf(probes').result = None) =>
                /\ pc' = "gate" /\ hostIdx' = hostIdx
                /\ trace' = Append(trace, "sleep") ]_vars

\* the writes to the routing file so far
ConfigWrites == Count(trace, "write_config") + Count(trace, "append_config")

\* C14 (as claimed): the routing file is written at most once in a run and
\* never holds a part of the routing table: it is as it was before the run
\* or it is the complete document.
C14_SingleCompleteWrite ==
    /\ ConfigWrites <= 1
    /\ Len(ssh_config_file) \in {0, ExpectedBlocks(outputs)}

\* C15: a create or update that was accepted is followed at once by the
\* pause, before any status read; only a rejected one, which ends the run,
\* is not.
C15_PauseAfterSubmit ==
    \A i \in 1..Len(trace) :
        trace[i] \in {"create", "update"} =>
            \/ i = Len(trace) /\ pc = "failed"
            \/ i < Len(trace) /\ trace[i + 1] = "sleep"

C15_Witness ==
    /\ pc = "fetch"
    /\ Creates = 1
    /\ Len(statusLog) = 2

\* the key file and agent operations so far
KeyOps ==
    LET IsKeyOp(e) == e \in {"write_key", "chmod:0600", "ssh_add"}
    IN  SelectSeq(trace, IsKeyOp)
HasKey(o) == "private_key" \in DOMAIN o
AfterKeyStep == pc \in {"writeconfig", "appendfip", "appendhost", "gate", "done"}

\* C16: the key file is written iff the outputs have a private_key; then
\* the key is written, restricted to 0600 and handed to ssh-add, in this
\* order and before the first probe; without a private_key no key file is
\* written and ssh-add is not run.
C16_KeyFileOrder ==
    /\ ~AfterKeyStep => KeyOps = << >> /\ ssh_key_file = None
    /\ AfterKeyStep =>
            IF HasKey(outputs)
            THEN /\ KeyOps = <<"write_key", "chmod:0600", "ssh_add">>
                 /\ ssh_key_file = outputs["private_key"]
            ELSE /\ KeyOps = << >>
                 /\ ssh_key_file = None
    /\ probes # << >> => AfterKeyStep

C16_Witness ==
    /\ pc = "gate"
    /\ HasKey(outputs)
    /\ probes # << >>
    /\ ssh_key_file = "KEYDATA"
\* C17: the default block that _run_heat writes has the IdentityFile option,
\* pointing at the key path, iff the outputs have a private_key; no other
\* block has one.
C17_IdentityOnlyInDefault ==
    (args.provisioner = "heat" /\ Len(ssh_config_file) > 0) =>
        /\ ssh_config_file[1].host = "*"
        /\ ssh_config_file[1].identity =
                (IF HasKey(outputs) THEN ssh_key_path ELSE None)
        /\ \A i \in 2..Len(ssh_config_file) :
                ssh_config_file[i].identity = None

C17_Witness ==
    /\ pc = "done"
    /\ DOMAIN outputs = HostKeys \cup {"floating_ip", "private_key"}
    /\ Len(ssh_config_file) = 4
    /\ ssh_config_file[1].identity = ssh_key_path

\* C18 (as claimed): the key path is handed to a probe only when the outputs
\* of this run have a private_key and it was written; without one the
\* probes get no key file.
C18_KeyFileOnlyWhenGenerated ==
    \A i \in 1..Len(probes) :
        IF HasKey(outputs)
        THEN probes[i].key_file = ssh_key_path
                /\ ssh_key_file = outputs["private_key"]
        ELSE probes[i].key_file = None

\* the connections test_ssh opened and left open
OpenConnections == Cardinality({i \in 1..Len(probes) : probes[i].open})

\* C19 (as claimed): every probe returns with its connection closed, so at
\* most one probe connection is open at any time and none when the gate
\* has returned.
C19_ConnectionsClosed ==
    /\ \A i \in 1..Len(probes) : ~probes[i].open
    /\ OpenConnections <= 1
    /\ pc = "done" => OpenConnections = 0
\* C20: once _run_heat is entered it ends, returned or failed, given that
\* the stack leaves IN_PROGRESS and every probed address comes to answer;
\* and the gate has no retry limit: a probe that failed, however many
\* times before, leaves the run in the gate, pausing before the next
\* attempt, and the run never fails once the probes have begun.
C20_EndsOrRetries ==
    /\ (runpc = "heat") ~> (pc \in {"done", "failed"})
    /\ [](probes # << >> =>
            /\ pc \in {"gate", "done"}
            /\ LastOf(probes).result = None =>
                    pc = "gate" /\ LastOf(trace) = "sleep")

C20_Witness ==
    /\ pc = "done"
    /\ Count(statusLog, "IN_PROGRESS") = MaxReads - 2
    /\ \E e \in HostKeys : Len(FailsOf(probes, e)) = MaxFails

\* C21 (as claimed): with the vagrant provisioner, when `vagrant up` exits
\* with a non-zero status _run_vagrant raises: the SSH config is not
\* generated, the configuration management is not called and the process
\* exits through main()'s except clause.
C21_VagrantFailureStops ==
    IsTrue(vagrant_up) =>
        /\ Count(trace, "vagrant_ssh_config") = 0
        /\ ssh_config_file = << >>
        /\ downstream = "none"
        /\ exit_code = "-1"

\* C22: while _run_heat has not passed the test of the final status, and
\* when it has failed (credentials, login, lookup, create or update, a
\* status read, or a final status other than COMPLETE), no step changes the
\* routing file or the key file, nothing is written or handed to ssh-add,
\* and no probe is made.
C22_FailureLeavesFiles ==
    [][ ( /\ args.provisioner = "heat"
          /\ \/ ~ReachedOutputs'
             \/ LastOf(statusLog') # "COMPLETE" ) =>
            /\ ssh_config_file' = ssh_config_file
            /\ ssh_key_file' = ssh_key_file
            /\ ConfigWrites' = 0
            /\ KeyOps' = << >>
            /\ probes' = << >> ]_vars

C22_Witness ==
    /\ runpc = "exit"
    /\ pc = "failed"
    /\ error.kind = "UnexpectedStatus"
    /\ LastOf(statusLog) = "FAILED"
    /\ Creates = 1
    /\ ConfigWrites = 0 /\ KeyOps = << >> /\ probes = << >>
====
